---- MODULE Spec2Model ----
(***************************************************************************)
(* Symptom browsing and co-occurrence analysis (data_processor.py,         *)
(* symptom_analyzer.py, preprocess.py, app.py).                            *)
(*                                                                         *)
(* Text is modelled as a sequence of characters.  A character is a         *)
(* one-element piece of text: an ASCII character, or a Thai word that the  *)
(* program only ever handles as a whole, written here by its               *)
(* transliteration:                                                        *)
(*   "KanRaksaKonNa"  the treatment-history label                          *)
(*   "Prawat", "ATK"  the two halves of the ATK-history label              *)
(*   "Uen"            the group label for answers without a space          *)
(*   "PhakPhon", "DuemNam", "PruksaPhaet"  the default recommendations     *)
(***************************************************************************)
EXTENDS Integers, Sequences, FiniteSets, TLC

VARIABLES
    raw,                    \* the spreadsheet: one summary cell per row
    df,                     \* the loaded frame's summary column
    pc,                     \* position of the running operation
    symptom_combinations,   \* list of per-record symptom sets
    all_symptoms,           \* sorted labels of the co-occurrence matrix
    cooccurrence_matrix,    \* <<row, column>> -> count
    k,                      \* index of the combination being counted
    order,                  \* iteration order of the current combination
    i,                      \* position of symptom1 in order
    j,                      \* position of symptom2 in order
    top_n,                  \* argument of find_most_related_symptoms
    related_symptoms,       \* symptom -> list of <<partner, count>>
    min_weight,             \* argument of create_symptom_graph
    G,                      \* the symptom graph: nodes and weighted edges
    symptoms,               \* the symptom list offered for browsing
    treatment_answers,      \* the treatment-history answers
    selected_symptom,       \* the symptom chosen for browsing
    answers,                \* the answers of the chosen symptom; group_answers' input
    grouped_answers,        \* group_answers' result: list of <<label, answers>>
    symptoms_with_answers,  \* preprocess: the rows of the recommendations template
    excel_readable,         \* whether the spreadsheet at excel_path can be read
    recommendations_file,   \* the CSV file at recommendations_path
    recommendations_dict,   \* load_data's mapping: symptom -> recommendations
    recs_shown,             \* the recommendations the browsing screen lists
    sim_symptoms,           \* calculate_symptom_similarity's symptom list
    symptom_answers,        \* symptom -> its answers joined into one text
    similarity,             \* calculate_symptom_similarity's outcome
    output_dir,             \* the files of the output directory
    runs                    \* the number of analyze_symptoms runs so far

analysisVars == <<symptom_combinations, all_symptoms, cooccurrence_matrix,
                  k, order, i, j, top_n, related_symptoms, min_weight, G>>
browseVars == <<symptoms, treatment_answers, selected_symptom, answers,
                grouped_answers, symptoms_with_answers, excel_readable,
                recommendations_file, recommendations_dict, recs_shown>>
simVars == <<sim_symptoms, symptom_answers, similarity>>
outputVars == <<output_dir, runs>>

vars == <<raw, df, pc, analysisVars, browseVars, simVars, outputVars>>

----------------------------------------------------------------------------
(* Bounds of the model *)

MaxRecords == 3
MaxTopN == 3
MaxMinWeight == 3

----------------------------------------------------------------------------
(* Text *)

SP == " "
TAB == "\t"
QUOTE == "'"
DASH == "-"

\* Unicode code point of a character (of the first letter of a Thai word)
CharCode(c) ==
    CASE c = TAB -> 9
      [] c = SP -> 32
      [] c = QUOTE -> 39
      [] c = DASH -> 45
      [] c = "ATK" -> 65
      [] c = "a" -> 97
      [] c = "b" -> 98
      [] c = "c" -> 99
      [] c = "KanRaksaKonNa" -> 3585
      [] c = "Prawat" -> 3611
      [] c = "Uen" -> 3629

TREATMENT == <<"KanRaksaKonNa">>
ATK_TYPO == <<"Prawat", SP, "ATK">>
ATK_CANONICAL == <<"Prawat", "ATK">>
OTHER_GROUP == <<"Uen">>

IsSpace(c) == c \in {SP, TAB}

RECURSIVE LStrip(_)
LStrip(s) == IF s # <<>> /\ IsSpace(Head(s)) THEN LStrip(Tail(s)) ELSE s

RECURSIVE RStrip(_)
RStrip(s) ==
    IF s # <<>> /\ IsSpace(s[Len(s)]) THEN RStrip(SubSeq(s, 1, Len(s) - 1)) ELSE s

\* str.strip()
Strip(s) == RStrip(LStrip(s))

\* s < t for Python strings: code point by code point, a proper prefix first
RECURSIVE StrLess(_, _)
StrLess(s, t) ==
    IF t = <<>> THEN FALSE
    ELSE IF s = <<>> THEN TRUE
    ELSE IF Head(s) = Head(t) THEN StrLess(Tail(s), Tail(t))
    ELSE CharCode(Head(s)) < CharCode(Head(t))

\* sorted(S) of a set of strings
RECURSIVE Sorted(_)
Sorted(S) ==
    IF S = {} THEN <<>>
    ELSE LET m == CHOOSE x \in S : \A y \in S \ {x} : StrLess(x, y)
         IN  <<m>> \o Sorted(S \ {m})

IsPrefix(p, s) == Len(p) <= Len(s) /\ SubSeq(s, 1, Len(p)) = p

\* whether text s holds the substring p
RECURSIVE Contains(_, _)
Contains(s, p) ==
    IF Len(s) < Len(p) THEN FALSE
    ELSE IsPrefix(p, s) \/ Contains(Tail(s), p)

\* str.replace(old, new): left to right, non-overlapping
RECURSIVE Replace(_, _, _)
Replace(s, old, new) ==
    IF Len(s) < Len(old) THEN s
    ELSE IF IsPrefix(old, s)
         THEN new \o Replace(SubSeq(s, Len(old) + 1, Len(s)), old, new)
         ELSE <<Head(s)>> \o Replace(Tail(s), old, new)

Range(f) == {f[x] : x \in DOMAIN f}

Perms(S) ==
    {p \in [1..Cardinality(S) -> S] : \A a, b \in DOMAIN p : a # b => p[a] # p[b]}

SeqsUpTo(S, n) == UNION {[1..m -> S] : m \in 0..n}

----------------------------------------------------------------------------
(* Summary cells.                                                          *)
(*                                                                         *)
(* A cell of the summary column is the text of a Python-style literal      *)
(*   {'yes_symptoms': [{'text': ..., 'answers': [...]}, ...]}              *)
(* or something else.  kind tells which:                                   *)
(*   "nan"      the cell is missing                                        *)
(*   "empty"    the empty text                                             *)
(*   "garbage"  text that is no JSON after the quote substitution, such as *)
(*              {not json  (items: the strings that occur in the text)     *)
(*   "array"    JSON text whose top-level value is a list, not an object   *)
(*   "object"   an object whose yes_symptoms list holds items              *)
(* An item is an object with a text and answers (obj), or a value of       *)
(* another type such as a number (~obj).  An answer is a text, or NonString *)
(* for a value that is no str, such as a number.                           *)
(***************************************************************************)

\* a value that is not a str
NonString == <<"NonString">>
IsStr(a) == a # NonString

Item(t, ans) == [obj |-> TRUE, text |-> t, answers |-> ans]
BadItem == [obj |-> FALSE, text |-> <<>>, answers |-> <<>>]
Cell(kind, items) == [kind |-> kind, items |-> items]

\* every string written in the cell's text
CellStrings(cell) ==
    UNION {{cell.items[n].text} \cup Range(cell.items[n].answers) :
           n \in DOMAIN cell.items}

\* Series.fillna("")
FillNa(col) ==
    [n \in DOMAIN col |-> IF col[n].kind = "nan" THEN Cell("empty", <<>>) ELSE col[n]]

\* Series.str.replace("ประวัติ ATK", "ประวัติATK", regex=False) on the raw
\* text: the pattern holds no quote, comma or bracket, so every occurrence
\* lies inside one string of the cell
Standardize(col) ==
    [n \in DOMAIN col |->
        IF col[n].kind = "nan" THEN col[n]
        ELSE Cell(col[n].kind,
                  [m \in DOMAIN col[n].items |->
                      [obj |-> col[n].items[m].obj,
                       text |-> Replace(col[n].items[m].text, ATK_TYPO, ATK_CANONICAL),
                       answers |->
                          [a \in DOMAIN col[n].items[m].answers |->
                              Replace(col[n].items[m].answers[a],
                                      ATK_TYPO, ATK_CANONICAL)]]])]

\* The mutant: a parser that recovers the items of a truncated text
JsonLoadsLenient(cell) ==
    IF cell.kind \in {"object", "garbage"}
    THEN [ok |-> TRUE, dict |-> TRUE, items |-> cell.items]
    ELSE [ok |-> cell.kind = "array", dict |-> FALSE, items |-> <<>>]

\* json.loads(summary_str.replace("'", '"')): the substitution turns the
\* literal's quotes into JSON's, and an apostrophe inside a string into a
\* quote that ends the string early.  A missing cell has no replace().
JsonLoads(cell) ==
    IF cell.kind = "object" /\ \A s \in CellStrings(cell) : ~Contains(s, <<QUOTE>>)
    THEN [ok |-> TRUE, dict |-> TRUE, items |-> cell.items]
    ELSE [ok |-> cell.kind = "array", dict |-> FALSE, items |-> <<>>]

\* The items the loop over summary.get("yes_symptoms", []) visits before the
\* try block is left: none when the text does not load or is no object, and
\* those before the first item without a get() otherwise
Visited(cell) ==
    LET v == JsonLoads(cell)
        bad == {n \in DOMAIN v.items : ~v.items[n].obj}
        stop == IF bad = {} THEN Len(v.items) + 1
                ELSE CHOOSE n \in bad : \A m \in bad : n <= m
    IN  IF v.ok /\ v.dict THEN SubSeq(v.items, 1, stop - 1) ELSE <<>>

\* whether the try block is left by an exception of the parse or of an
\* item's get()
Raises(cell) ==
    LET v == JsonLoads(cell)
    IN  ~(v.ok /\ v.dict) \/ \E n \in DOMAIN v.items : ~v.items[n].obj

\* the items before the first one that makes the loop body raise, bad
\* being the places of those that do
Before(items, bad) ==
    IF bad = {} THEN items
    ELSE SubSeq(items, 1, (CHOOSE n \in bad : \A m \in bad : n <= m) - 1)

\* any(a.strip() for a in answers) stops at the first answer that has no
\* strip() or is not blank
Deciding(ans) == {p \in DOMAIN ans : ~IsStr(ans[p]) \/ Strip(ans[p]) # <<>>}
FirstDeciding(ans) == CHOOSE p \in Deciding(ans) : \A q \in Deciding(ans) : p <= q
AnyStripped(ans) == Deciding(ans) # {} /\ IsStr(ans[FirstDeciding(ans)])
AnyStrippedRaises(ans) == Deciding(ans) # {} /\ ~IsStr(ans[FirstDeciding(ans)])

\* [a.strip() for a in answers if a.strip()] raises on an answer without
\* strip()
AnswersRaise(item) == \E p \in DOMAIN item.answers : ~IsStr(item.answers[p])

----------------------------------------------------------------------------
(* symptom_analyzer.py: combinations and the co-occurrence matrix *)

\* symptoms_in_record once the loop over the items has finished
SymptomsInRecord(cell) ==
    {Strip(Visited(cell)[n].text) : n \in DOMAIN Visited(cell)} \ {<<>>, TREATMENT}

\* The mutant: a record with a single symptom is a combination too
RECURSIVE CombinationsFromSingles(_, _)
CombinationsFromSingles(col, n) ==
    IF n > Len(col) THEN <<>>
    ELSE (IF ~Raises(col[n]) /\ Cardinality(SymptomsInRecord(col[n])) > 0
          THEN <<SymptomsInRecord(col[n])>> ELSE <<>>)
         \o CombinationsFromSingles(col, n + 1)

\* the loop over the records: if len(symptoms_in_record) > 1: append
RECURSIVE CombinationsFrom(_, _)
CombinationsFrom(col, n) ==
    IF n > Len(col) THEN <<>>
    ELSE (IF ~Raises(col[n]) /\ Cardinality(SymptomsInRecord(col[n])) > 1
          THEN <<SymptomsInRecord(col[n])>> ELSE <<>>)
         \o CombinationsFrom(col, n + 1)

\* extract_symptom_combinations(df): the append is the last statement of the
\* try block, so a record that raises appends nothing
ExtractSymptomCombinations(frame) == CombinationsFrom(FillNa(frame), 1)

\* sorted(list(all_symptoms)) over the union of the combinations
AllSymptoms(combos) == Sorted(UNION Range(combos))

\* pd.DataFrame(0, index=all_symptoms, columns=all_symptoms)
ZeroMatrix(labels) == [p \in Range(labels) \X Range(labels) |-> 0]

\* The mutant: the increment without the symptom1 != symptom2 test
IncrementAlways(M, symptom1, symptom2) ==
    [M EXCEPT ![<<symptom1, symptom2>>] = @ + 1]

\* The mutant: only the cell above the diagonal is counted
IncrementUpperOnly(M, symptom1, symptom2) ==
    IF StrLess(symptom1, symptom2)
    THEN [M EXCEPT ![<<symptom1, symptom2>>] = @ + 1]
    ELSE M

\* the body of the inner loop: if symptom1 != symptom2: M.loc[s1, s2] += 1
Increment(M, symptom1, symptom2) ==
    IF symptom1 # symptom2
    THEN [M EXCEPT ![<<symptom1, symptom2>>] = @ + 1]
    ELSE M

----------------------------------------------------------------------------
(* symptom_analyzer.py: the relation ranker *)

\* The mutant: an element goes before the elements of equal count
InsertDescUnstable(sorted, x) ==
    LET before == {p \in 1..Len(sorted) : sorted[p][2] > x[2]}
        n == Cardinality(before)
    IN  SubSeq(sorted, 1, n) \o <<x>> \o SubSeq(sorted, n + 1, Len(sorted))

\* x goes after every element whose count is at least its own: sorted is in
\* non-increasing order, so those are a prefix
InsertDesc(sorted, x) ==
    LET before == {p \in 1..Len(sorted) : sorted[p][2] >= x[2]}
        n == Cardinality(before)
    IN  SubSeq(sorted, 1, n) \o <<x>> \o SubSeq(sorted, n + 1, Len(sorted))

\* list.sort(key=lambda x: x[1], reverse=True): stable
RECURSIVE SortByCountDesc(_)
SortByCountDesc(s) ==
    IF s = <<>> THEN <<>>
    ELSE InsertDesc(SortByCountDesc(SubSeq(s, 1, Len(s) - 1)), s[Len(s)])

\* s[:n]
Take(s, n) ==
    IF n >= 0 THEN SubSeq(s, 1, IF n < Len(s) THEN n ELSE Len(s))
    ELSE SubSeq(s, 1, IF Len(s) + n > 0 THEN Len(s) + n ELSE 0)

\* The mutant: the comprehension without its count > 0 condition
RelatedUnfiltered(M, labels, symptom) ==
    LET keep == SelectSeq(labels, LAMBDA other : other # symptom)
    IN  [n \in DOMAIN keep |-> <<keep[n], M[<<keep[n], symptom>>]>>]

\* [(other, count) for other, count in M[symptom].items()
\*  if count > 0 and other != symptom]: the column of symptom, row by row
Related(M, labels, symptom) ==
    LET keep == SelectSeq(labels,
                    LAMBDA other : M[<<other, symptom>>] > 0 /\ other # symptom)
    IN  [n \in DOMAIN keep |-> <<keep[n], M[<<keep[n], symptom>>]>>]

\* find_most_related_symptoms(cooccurrence_matrix, top_n)
FindMostRelatedSymptoms(M, labels, n) ==
    [symptom \in Range(labels) |-> Take(SortByCountDesc(Related(M, labels, symptom)), n)]

----------------------------------------------------------------------------
(* symptom_analyzer.py: the graph *)

EmptyGraph == [nodes |-> {}, weight |-> <<>>]

\* G.add_edge(u, v, weight=w): an undirected edge; adding it again replaces
\* the weight
AddEdge(g, u, v, w) ==
    [g EXCEPT !.weight =
        [e \in DOMAIN g.weight \cup {{u, v}} |-> IF e = {u, v} THEN w ELSE g.weight[e]]]

\* The mutant: an edge needs a weight above min_weight
EdgeWantedStrict(weight, mw, symptom1, symptom2) ==
    weight > mw /\ symptom1 # symptom2

\* if weight >= min_weight and symptom1 != symptom2
EdgeWanted(weight, mw, symptom1, symptom2) ==
    weight >= mw /\ symptom1 # symptom2

\* the two loops over index and columns, pair number p of Len(labels)^2
RECURSIVE AddEdgesFrom(_, _, _, _, _)
AddEdgesFrom(g, M, labels, mw, p) ==
    IF p > Len(labels) * Len(labels) THEN g
    ELSE LET symptom1 == labels[((p - 1) \div Len(labels)) + 1]
             symptom2 == labels[((p - 1) % Len(labels)) + 1]
             weight == M[<<symptom1, symptom2>>]
         IN  AddEdgesFrom(IF EdgeWanted(weight, mw, symptom1, symptom2)
                          THEN AddEdge(g, symptom1, symptom2, weight) ELSE g,
                          M, labels, mw, p + 1)

\* create_symptom_graph(cooccurrence_matrix, min_weight)
CreateSymptomGraph(M, labels, mw) ==
    AddEdgesFrom([nodes |-> Range(labels), weight |-> <<>>], M, labels, mw, 1)

----------------------------------------------------------------------------
(* data_processor.py: the extractors *)

\* [a.strip() for a in item.get("answers", []) if a.strip()], of answers
\* that are all strings
StrippedAnswers(item) ==
    LET keep == SelectSeq(item.answers, LAMBDA a : Strip(a) # <<>>)
    IN  [n \in DOMAIN keep |-> Strip(keep[n])]

\* The mutant: the test without its any(a.strip() for a in answers)
HasAnswersAnyText(item) ==
    /\ Strip(item.text) # <<>>
    /\ Strip(item.text) # TREATMENT
    /\ item.answers # <<>>

\* text and text != "การรักษาก่อนหน้า" and answers
\*      and any(a.strip() for a in answers)
HasAnswers(item) ==
    /\ Strip(item.text) # <<>>
    /\ Strip(item.text) # TREATMENT
    /\ item.answers # <<>>
    /\ AnyStripped(item.answers)

\* the same test raises: any() meets an answer without strip()
SymptomTestRaises(item) ==
    /\ Strip(item.text) # <<>>
    /\ Strip(item.text) # TREATMENT
    /\ item.answers # <<>>
    /\ AnyStrippedRaises(item.answers)

\* the set extract_all_symptoms collects: an item met before an exception
\* has been added already
SymptomSet(frame) ==
    UNION {{Strip(it.text) :
                it \in {x \in Range(Before(Visited(frame[n]),
                                             {m \in DOMAIN Visited(frame[n]) :
                                                 SymptomTestRaises(Visited(frame[n])[m])})) :
                            HasAnswers(x)}} :
           n \in DOMAIN frame}

\* extract_all_symptoms(df)
ExtractAllSymptoms(frame) == Sorted(SymptomSet(frame))

\* the items of one text a record gives before its try block is left
ItemsOf(cell, text) ==
    SelectSeq(Before(Visited(cell),
                     {n \in DOMAIN Visited(cell) :
                         /\ Strip(Visited(cell)[n].text) = text
                         /\ AnswersRaise(Visited(cell)[n])}),
              LAMBDA it : Strip(it.text) = text)

\* all the answers collected for the items of one text: an item's answers
\* are added together, after the comprehension over them
AnswersOf(frame, text) ==
    UNION {UNION {Range(StrippedAnswers(it)) : it \in Range(ItemsOf(frame[n], text))} :
           n \in DOMAIN frame}

\* treatment_answers.update(a.strip() for a in ... if a.strip()) adds the
\* answers one by one: those before an answer without strip() stay
PartialAnswers(item) ==
    LET bad == {p \in DOMAIN item.answers : ~IsStr(item.answers[p])}
        stop == IF bad = {} THEN Len(item.answers) + 1
                ELSE CHOOSE p \in bad : \A q \in bad : p <= q
    IN  {Strip(item.answers[p]) : p \in 1..(stop - 1)} \ {<<>>}

\* what the treatment-history items of a record add
TreatmentAnswersOf(cell) ==
    LET seen == Visited(cell)
        raising == {n \in DOMAIN seen :
                       Strip(seen[n].text) = TREATMENT /\ AnswersRaise(seen[n])}
        stop == IF raising = {} THEN Len(seen)
                ELSE CHOOSE n \in raising : \A m \in raising : n <= m
    IN  UNION {PartialAnswers(seen[n]) :
                  n \in {m \in 1..stop : Strip(seen[m].text) = TREATMENT}}

\* get_answers_by_symptom(symptom, df), as the set its list is made from
GetAnswersBySymptom(symptom, frame) == AnswersOf(frame, symptom)

\* get_treatment_answers(df)
GetTreatmentAnswers(frame) ==
    Sorted(UNION {TreatmentAnswersOf(frame[n]) : n \in DOMAIN frame})

\* ans.split(' ', 1): the place of the first space, 0 when there is none
FirstSpace(ans) ==
    IF \E p \in DOMAIN ans : ans[p] = SP
    THEN CHOOSE p \in DOMAIN ans : ans[p] = SP /\ \A q \in 1..(p - 1) : ans[q] # SP
    ELSE 0

\* The mutant: a split at the first whitespace character of any kind
GroupKeyAnyWhitespace(ans) ==
    IF \E p \in DOMAIN ans : IsSpace(ans[p])
    THEN SubSeq(ans, 1,
                (CHOOSE p \in DOMAIN ans :
                    IsSpace(ans[p]) /\ \A q \in 1..(p - 1) : ~IsSpace(ans[q])) - 1)
    ELSE OTHER_GROUP

\* key = parts[0] if len(parts) > 1 else "อื่นๆ"
GroupKey(ans) ==
    IF FirstSpace(ans) > 0 THEN SubSeq(ans, 1, FirstSpace(ans) - 1) ELSE OTHER_GROUP

\* groups[key].append(ans) on a defaultdict(list) kept as a list of
\* <<key, answers>> in insertion order
AppendToGroup(groups, key, ans) ==
    IF \E p \in DOMAIN groups : groups[p][1] = key
    THEN [p \in DOMAIN groups |->
             IF groups[p][1] = key THEN <<key, Append(groups[p][2], ans)>> ELSE groups[p]]
    ELSE Append(groups, <<key, <<ans>>>>)

RECURSIVE CollectGroups(_)
CollectGroups(list) ==
    IF list = <<>> THEN <<>>
    ELSE AppendToGroup(CollectGroups(SubSeq(list, 1, Len(list) - 1)),
                       GroupKey(list[Len(list)]), list[Len(list)])

\* dict(sorted(groups.items())): the keys are distinct, so they decide
SortGroups(groups) ==
    LET keys == Sorted({groups[p][1] : p \in DOMAIN groups})
    IN  [n \in DOMAIN keys |-> groups[CHOOSE p \in DOMAIN groups : groups[p][1] = keys[n]]]

\* group_answers(answers)
GroupAnswers(list) == SortGroups(CollectGroups(list))

----------------------------------------------------------------------------
(* data_processor.py: the recommendations table of load_data, and app.py's   *)
(* use of it.                                                               *)
(*                                                                         *)
(* The CSV file is unreadable (missing, not UTF-8, not a table), or it has  *)
(* rows: a row is a key (the symptom column) and the three recommendation   *)
(* columns.  A field is a text, or NonString for a value that is no str:    *)
(* NaN for an empty field, a number.  The empty text is what row.get gives  *)
(* for a column the file does not have.  fail_at = n > 0 says that the      *)
(* conversion of row n raises an exception (a file without the symptom      *)
(* column raises at row 1); fail_at = 0 that none does.                     *)
(***************************************************************************)

Row(key, recs) == [key |-> key, recs |-> recs]
UnreadableFile == [readable |-> FALSE, rows |-> <<>>, fail_at |-> 0]
File(rows, n) == [readable |-> TRUE, rows |-> rows, fail_at |-> n]

\* app.py: default_recommendations, "rest adequately", "drink plenty of
\* water", "see a doctor if the symptoms do not improve or get worse"
default_recommendations == << <<"PhakPhon">>, <<"DuemNam">>, <<"PruksaPhaet">> >>

\* [rec for rec in [...] if isinstance(rec, str) and rec.strip()]
KeepRecs(recs) == SelectSeq(recs, LAMBDA rec : rec # NonString /\ Strip(rec) # <<>>)

\* recommendations_dict[symptom] = recs
SetItem(dict, key, value) ==
    [x \in DOMAIN dict \cup {key} |-> IF x = key THEN value ELSE dict[x]]

\* The mutant: a handler that keeps what the loop has filled in
OnRecommendationsErrorKeep(dict) == dict

\* except Exception: recommendations_dict = {}
OnRecommendationsError(dict) == <<>>

\* the loop over recommendations_df.iterrows(), from row n on
RECURSIVE ConvertRows(_, _, _)
ConvertRows(file, dict, n) ==
    IF n > Len(file.rows) THEN dict
    ELSE IF file.fail_at = n THEN OnRecommendationsError(dict)
    ELSE ConvertRows(file,
                     SetItem(dict, file.rows[n].key, KeepRecs(file.rows[n].recs)),
                     n + 1)

\* load_data: the try block around pd.read_csv and the conversion
LoadRecommendations(file) ==
    IF ~file.readable THEN OnRecommendationsError(<<>>)
    ELSE ConvertRows(file, <<>>, 1)

\* recs = recommendations_dict.get(selected_symptom, default_recommendations)
RecsFor(dict, symptom) ==
    IF symptom \in DOMAIN dict THEN dict[symptom] ELSE default_recommendations

\* for rec in recs: if rec and isinstance(rec, str): st.markdown(...)
ShownRecs(recs) == SelectSeq(recs, LAMBDA rec : rec # <<>> /\ rec # NonString)

----------------------------------------------------------------------------
(* preprocess.py *)

\* extract_symptoms(df): the texts as written, not stripped
ExtractSymptoms(frame) ==
    Sorted(UNION {{Visited(frame[n])[m].text : m \in DOMAIN Visited(frame[n])} :
                  n \in DOMAIN frame})

\* filter_symptoms_with_answers(df, symptom_list)
FilterSymptomsWithAnswers(frame, symptom_list) ==
    Sorted({s \in Range(symptom_list) :
               /\ s # TREATMENT
               /\ \E n \in DOMAIN frame :
                     \E it \in Range(Before(Visited(frame[n]),
                                           {m \in DOMAIN Visited(frame[n]) :
                                               /\ Visited(frame[n])[m].text = s
                                               /\ Visited(frame[n])[m].answers # <<>>
                                               /\ AnyStrippedRaises(
                                                      Visited(frame[n])[m].answers)})) :
                         /\ it.text = s
                         /\ it.answers # <<>>
                         /\ AnyStripped(it.answers)})

----------------------------------------------------------------------------
(* symptom_analyzer.py: calculate_symptom_similarity *)

\* " ".join(list)
RECURSIVE JoinWithSpace(_)
JoinWithSpace(list) ==
    IF list = <<>> THEN <<>>
    ELSE IF Len(list) = 1 THEN list[1]
    ELSE list[1] \o <<SP>> \o JoinWithSpace(Tail(list))

\* the answers list of one symptom: record by record, item by item
RECURSIVE AnswersListFrom(_, _, _)
AnswersListFrom(col, symptom, n) ==
    IF n > Len(col) THEN <<>>
    ELSE LET hit == ItemsOf(col[n], symptom)
             RECURSIVE Flat(_)
             Flat(items) == IF items = <<>> THEN <<>>
                            ELSE StrippedAnswers(Head(items)) \o Flat(Tail(items))
         IN  Flat(hit) \o AnswersListFrom(col, symptom, n + 1)

\* the first loop of calculate_symptom_similarity: symptom_answers
SymptomAnswers(frame, list) ==
    [s \in Range(list) |-> JoinWithSpace(AnswersListFrom(FillNa(frame), s, 1))]

\* \w of the token pattern: letters and digits, not punctuation or space
IsWordChar(c) == c \notin {SP, TAB, DASH, QUOTE}

\* the tokens of token_pattern \b\w+\b in a text: its runs of word characters
RECURSIVE Tokens(_, _)
Tokens(doc, run) ==
    IF doc = <<>> THEN (IF run = <<>> THEN {} ELSE {run})
    ELSE IF IsWordChar(Head(doc)) THEN Tokens(Tail(doc), Append(run, Head(doc)))
    ELSE (IF run = <<>> THEN {} ELSE {run}) \cup Tokens(Tail(doc), <<>>)

\* the vocabulary CountVectorizer.fit_transform learns from the texts
Vocabulary(texts) == UNION {Tokens(texts[n], <<>>) : n \in DOMAIN texts}

\* the tokens of a text in order, a token as often as it occurs
RECURSIVE TokenList(_, _)
TokenList(doc, run) ==
    IF doc = <<>> THEN (IF run = <<>> THEN <<>> ELSE <<run>>)
    ELSE IF IsWordChar(Head(doc)) THEN TokenList(Tail(doc), Append(run, Head(doc)))
    ELSE (IF run = <<>> THEN <<>> ELSE <<run>>) \o TokenList(Tail(doc), <<>>)

\* a row of X = fit_transform(answer_texts): the count of every token of the
\* vocabulary in one text (the lowercasing changes none of the letters here)
CountVector(doc, vocab) ==
    [t \in vocab |->
        Cardinality({p \in DOMAIN TokenList(doc, <<>>) : TokenList(doc, <<>>)[p] = t})]

RECURSIVE DotProduct(_, _, _)
DotProduct(u, v, vocab) ==
    IF vocab = {} THEN 0
    ELSE LET t == CHOOSE x \in vocab : TRUE
         IN  u[t] * v[t] + DotProduct(u, v, vocab \ {t})

\* One entry of cosine_similarity(X), in exact arithmetic: the number
\* dot / sqrt(norms), written as its two integers.  normalize() divides a
\* row by its length and leaves a row of zeros as it is, so an entry that
\* involves such a row is 0: it is written with dot = 0 and norms = 0.
CosineSimilarity(u, v, vocab) ==
    [dot |-> DotProduct(u, v, vocab),
     norms |-> DotProduct(u, u, vocab) * DotProduct(v, v, vocab)]

\* cosine_similarity(X) for the texts, by position
SimilarityMatrix(texts) ==
    LET vocab == Vocabulary(texts)
    IN  [q \in (DOMAIN texts) \X (DOMAIN texts) |->
            CosineSimilarity(CountVector(texts[q[1]], vocab),
                             CountVector(texts[q[2]], vocab), vocab)]

NoSimilarity == [raised |-> FALSE, index |-> <<>>, matrix |-> <<>>]

\* valid_symptoms = [s for s in symptoms if symptom_answers[s]]
ValidSymptoms(list, docs) == SelectSeq(list, LAMBDA s : docs[s] # <<>>)

\* the rest of calculate_symptom_similarity: an empty frame for fewer than 2
\* valid symptoms; fit_transform raises ValueError (empty vocabulary) when no
\* text holds a token; otherwise a frame of the cosine similarities, indexed
\* by the valid symptoms
SimilarityOutcome(list, docs) ==
    LET valid == ValidSymptoms(list, docs)
        texts == [n \in DOMAIN valid |-> docs[valid[n]]]
    IN  IF Len(valid) < 2 THEN NoSimilarity
        ELSE IF Vocabulary(texts) = {}
             THEN [raised |-> TRUE, index |-> <<>>, matrix |-> <<>>]
        ELSE [raised |-> FALSE, index |-> valid, matrix |-> SimilarityMatrix(texts)]

----------------------------------------------------------------------------
(* symptom_analyzer.py: analyze_symptoms and the files it writes *)

\* the two loops over one combination, pair number p of Len(ord)^2
RECURSIVE CountPairsFrom(_, _, _)
CountPairsFrom(M, ord, p) ==
    IF p > Len(ord) * Len(ord) THEN M
    ELSE CountPairsFrom(Increment(M, ord[((p - 1) \div Len(ord)) + 1],
                                     ord[((p - 1) % Len(ord)) + 1]),
                        ord, p + 1)

RECURSIVE CountCombinationsFrom(_, _, _)
CountCombinationsFrom(M, combos, n) ==
    IF n > Len(combos) THEN M
    ELSE CountCombinationsFrom(CountPairsFrom(M, Sorted(combos[n]), 1), combos, n + 1)

\* calculate_symptom_cooccurrence(symptom_combinations) as a whole (the
\* order a combination is iterated in does not change the counts)
CalculateSymptomCooccurrence(combos) ==
    CountCombinationsFrom(ZeroMatrix(AllSymptoms(combos)), combos, 1)

\* the defaults of find_most_related_symptoms and create_symptom_graph
TopNDefault == 5
MinWeightDefault == 2

\* a file of the output directory: what it holds and the run that wrote it
NoFile == [written |-> FALSE, by |-> 0, content |-> <<>>]
Artifact(n, content) == [written |-> TRUE, by |-> n, content |-> content]

ArtifactNames == {"cooccurrence", "relations", "network", "similarity"}
EmptyDirectory == [f \in ArtifactNames |-> NoFile]

\* if not similarity_matrix.empty
SimilarityWritten(outcome) == outcome.index # <<>>

\* what one run of analyze_symptoms computes from a spreadsheet
Analysis(dataset) ==
    LET frame == FillNa(dataset)
        combos == ExtractSymptomCombinations(frame)
        labels == AllSymptoms(combos)
        M == CalculateSymptomCooccurrence(combos)
        list == Sorted(Range(labels))
        docs == SymptomAnswers(frame, list)
    IN  [df |-> frame, combos |-> combos, labels |-> labels, matrix |-> M,
         related |-> FindMostRelatedSymptoms(M, labels, TopNDefault),
         graph |-> CreateSymptomGraph(M, labels, MinWeightDefault),
         symptoms |-> list, docs |-> docs,
         similarity |-> SimilarityOutcome(list, docs)]

\* the files after run n: the three that are written before the
\* similarities are computed, and the similarity matrix when the run
\* gets there and the matrix is not empty
FilesAfter(dir, n, a) ==
    [f \in ArtifactNames |->
        CASE f = "cooccurrence" -> Artifact(n, <<a.labels, a.matrix>>)
          [] f = "relations" -> Artifact(n, a.related)
          [] f = "network" -> Artifact(n, a.graph)
          [] f = "similarity" ->
                IF ~a.similarity.raised /\ SimilarityWritten(a.similarity)
                THEN Artifact(n, a.similarity)
                ELSE dir[f]]

----------------------------------------------------------------------------
(* The analysis: symptom_analyzer.py run on a spreadsheet *)

A == <<"a">>
B == <<"b">>
C == <<"c">>

\* the summary cells the analysed spreadsheets are made of
AnalyzeCells ==
    { Cell("object", <<Item(A, <<>>), Item(B, <<>>)>>),
      Cell("object", <<Item(C, <<>>), Item(A, <<>>)>>),
      Cell("object", <<Item(B, <<>>), Item(C, <<>>), Item(A, <<>>)>>),
      Cell("object", <<Item(<<SP, "a", TAB>>, <<>>), Item(TREATMENT, <<>>),
                       Item(<<SP>>, <<>>), Item(B, <<>>), Item(B, <<>>)>>),
      Cell("object", <<Item(A, <<>>), Item(TREATMENT, <<>>), Item(A, <<>>)>>),
      Cell("object", <<Item(A, <<>>), Item(B, <<>>), BadItem>>),
      Cell("garbage", <<Item(A, <<>>), Item(B, <<>>)>>),
      Cell("nan", <<>>) }

\* nothing has run yet
BlankAnalysis ==
    /\ symptom_combinations = <<>>
    /\ all_symptoms = <<>>
    /\ cooccurrence_matrix = <<>>
    /\ k = 0
    /\ order = <<>>
    /\ i = 0
    /\ j = 0
    /\ top_n = 0
    /\ related_symptoms = <<>>
    /\ min_weight = 0
    /\ G = EmptyGraph

BlankBrowse ==
    /\ symptoms = <<>>
    /\ treatment_answers = <<>>
    /\ selected_symptom = <<>>
    /\ grouped_answers = <<>>
    /\ symptoms_with_answers = <<>>
    /\ recommendations_dict = <<>>
    /\ recs_shown = <<>>

BlankSimilarity ==
    /\ symptom_answers = <<>>
    /\ similarity = NoSimilarity
    /\ output_dir = EmptyDirectory
    /\ runs = 0

\* both files are there, and the table has no rows
FilesThere ==
    /\ excel_readable = TRUE
    /\ recommendations_file = File(<<>>, 0)

Blank ==
    /\ df = <<>>
    /\ pc = "start"
    /\ FilesThere
    /\ BlankAnalysis
    /\ BlankBrowse
    /\ answers = <<>>
    /\ sim_symptoms = <<>>
    /\ BlankSimilarity

Init ==
    /\ raw \in SeqsUpTo(AnalyzeCells, MaxRecords)
    /\ Blank

\* analyze_symptoms: pd.read_excel and the fillna of the summary column
ReadExcel ==
    /\ pc = "start"
    /\ excel_readable
    /\ df' = FillNa(raw)
    /\ pc' = "loaded"
    /\ UNCHANGED <<browseVars, simVars, outputVars>>
    /\ UNCHANGED <<raw, symptom_combinations, all_symptoms, cooccurrence_matrix,
                   k, order, i, j, top_n, related_symptoms, min_weight, G>>

\* extract_symptom_combinations(df)
ExtractCombinations ==
    /\ pc = "loaded"
    /\ symptom_combinations' = ExtractSymptomCombinations(df)
    /\ pc' = "combinations"
    /\ UNCHANGED <<browseVars, simVars, outputVars>>
    /\ UNCHANGED <<raw, df, all_symptoms, cooccurrence_matrix,
                   k, order, i, j, top_n, related_symptoms, min_weight, G>>

\* calculate_symptom_cooccurrence: the labels and the matrix of zeros
CooccurrenceInit ==
    /\ pc = "combinations"
    /\ all_symptoms' = AllSymptoms(symptom_combinations)
    /\ cooccurrence_matrix' = ZeroMatrix(AllSymptoms(symptom_combinations))
    /\ k' = 1
    /\ pc' = "fill"
    /\ UNCHANGED <<browseVars, simVars, outputVars>>
    /\ UNCHANGED <<raw, df, symptom_combinations, order, i, j,
                   top_n, related_symptoms, min_weight, G>>

\* for combo in symptom_combinations: the set is iterated in some order, the
\* same in both loops
NextCombination ==
    /\ pc = "fill"
    /\ order = <<>>
    /\ k <= Len(symptom_combinations)
    /\ order' \in Perms(symptom_combinations[k])
    /\ i' = 1
    /\ j' = 1
    /\ UNCHANGED <<browseVars, simVars, outputVars>>
    /\ UNCHANGED <<raw, df, pc, symptom_combinations, all_symptoms,
                   cooccurrence_matrix, k, top_n, related_symptoms, min_weight, G>>

\* one pass of the inner loop, for symptom1 = order[i] and symptom2 = order[j]
CountPair ==
    /\ pc = "fill"
    /\ order # <<>>
    /\ cooccurrence_matrix' = Increment(cooccurrence_matrix, order[i], order[j])
    /\ IF j < Len(order)
       THEN /\ j' = j + 1
            /\ UNCHANGED <<i, k, order>>
       ELSE IF i < Len(order)
       THEN /\ i' = i + 1
            /\ j' = 1
            /\ UNCHANGED <<k, order>>
       ELSE /\ i' = 0
            /\ j' = 0
            /\ order' = <<>>
            /\ k' = k + 1
    /\ UNCHANGED <<browseVars, simVars, outputVars>>
    /\ UNCHANGED <<raw, df, pc, symptom_combinations, all_symptoms,
                   top_n, related_symptoms, min_weight, G>>

\* calculate_symptom_cooccurrence returns
CooccurrenceReturn ==
    /\ pc = "fill"
    /\ order = <<>>
    /\ k > Len(symptom_combinations)
    /\ pc' = "matrix"
    /\ UNCHANGED <<browseVars, simVars, outputVars>>
    /\ UNCHANGED <<raw, df, symptom_combinations, all_symptoms, cooccurrence_matrix,
                   k, order, i, j, top_n, related_symptoms, min_weight, G>>

\* find_most_related_symptoms(cooccurrence_matrix, top_n)
FindMostRelated ==
    /\ pc = "matrix"
    /\ \E n \in 0..MaxTopN :
          /\ top_n' = n
          /\ related_symptoms' =
                FindMostRelatedSymptoms(cooccurrence_matrix, all_symptoms, n)
    /\ pc' = "related"
    /\ UNCHANGED <<browseVars, simVars, outputVars>>
    /\ UNCHANGED <<raw, df, symptom_combinations, all_symptoms, cooccurrence_matrix,
                   k, order, i, j, min_weight, G>>

\* create_symptom_graph(cooccurrence_matrix, min_weight)
CreateGraph ==
    /\ pc = "matrix"
    /\ \E mw \in 0..MaxMinWeight :
          /\ min_weight' = mw
          /\ G' = CreateSymptomGraph(cooccurrence_matrix, all_symptoms, mw)
    /\ pc' = "graph"
    /\ UNCHANGED <<browseVars, simVars, outputVars>>
    /\ UNCHANGED <<raw, df, symptom_combinations, all_symptoms, cooccurrence_matrix,
                   k, order, i, j, top_n, related_symptoms>>

Next ==
    \/ ReadExcel
    \/ ExtractCombinations
    \/ CooccurrenceInit
    \/ NextCombination
    \/ CountPair
    \/ CooccurrenceReturn
    \/ FindMostRelated
    \/ CreateGraph

Spec == Init /\ [][Next]_vars

----------------------------------------------------------------------------
(* The three entry points that extract entries from a spreadsheet: the app  *)
(* (load_data, then the browsing screen), preprocess.py's main, and         *)
(* analyze_symptoms                                                         *)

X1 == <<"a", SP, "b">>
X2 == <<SP, "c", SP>>
BLANK == <<SP>>

\* the summary cells these spreadsheets are made of
ExtractCells ==
    { Cell("object", <<Item(A, <<X1, X2>>), Item(B, <<BLANK, <<>>>>),
                       Item(<<>>, <<X1>>)>>),
      Cell("object", <<Item(<<SP, "b">>, <<C>>), Item(TREATMENT, <<ATK_TYPO, X2>>),
                       Item(C, <<>>)>>),
      Cell("object", <<Item(ATK_TYPO, <<X1>>), Item(A, <<C>>)>>),
      Cell("object", <<Item(C, <<X1>>), BadItem, Item(B, <<X1>>)>>),
      Cell("object", <<Item(B, <<(<<"a", QUOTE, "b">>)>>)>>),
      Cell("garbage", <<Item(C, <<X1>>), Item(TREATMENT, <<A>>)>>),
      Cell("array", <<>>),
      Cell("nan", <<>>) }

InitExtract ==
    /\ raw \in SeqsUpTo(ExtractCells, MaxRecords)
    /\ Blank

\* load_data: the summary column of the frame it returns
LoadedFrame(col) == Standardize(FillNa(col))

\* load_data(excel_path, recommendations_path): the frame and the mapping
LoadData ==
    /\ pc = "start"
    /\ excel_readable
    /\ df' = LoadedFrame(raw)
    /\ recommendations_dict' = LoadRecommendations(recommendations_file)
    /\ pc' = "app_loaded"
    /\ UNCHANGED <<raw, analysisVars, simVars, outputVars, symptoms, treatment_answers,
                   selected_symptom, answers, grouped_answers, symptoms_with_answers,
                   excel_readable, recommendations_file, recs_shown>>

\* app.main: extract_all_symptoms(df) and get_treatment_answers(df)
AppExtract ==
    /\ pc = "app_loaded"
    /\ symptoms' = ExtractAllSymptoms(df)
    /\ treatment_answers' = GetTreatmentAnswers(df)
    /\ pc' = "browse"
    /\ UNCHANGED <<raw, df, analysisVars, simVars, outputVars, selected_symptom, answers,
                   grouped_answers, symptoms_with_answers, excel_readable,
                   recommendations_file, recommendations_dict, recs_shown>>

\* display_recommendation_interface: a symptom of the list is selected; its
\* answers come as list(set(...)), in some order; when there are any they
\* are grouped and the recommendations are listed
SelectSymptom ==
    /\ pc = "browse"
    /\ \E s \in Range(symptoms) :
          /\ selected_symptom' = s
          /\ answers' \in Perms(GetAnswersBySymptom(s, df))
    /\ grouped_answers' = IF answers' # <<>> THEN GroupAnswers(answers') ELSE <<>>
    /\ recs_shown' = IF answers' # <<>>
                     THEN ShownRecs(RecsFor(recommendations_dict, selected_symptom'))
                     ELSE <<>>
    /\ pc' = "selected"
    /\ UNCHANGED <<raw, df, analysisVars, simVars, outputVars, symptoms, treatment_answers,
                   symptoms_with_answers, excel_readable, recommendations_file,
                   recommendations_dict>>

\* preprocess.main: fillna, standardize_data, extract_symptoms and
\* filter_symptoms_with_answers
PreprocessMain ==
    /\ pc = "start"
    /\ excel_readable
    /\ df' = Standardize(FillNa(raw))
    /\ symptoms_with_answers' =
          FilterSymptomsWithAnswers(Standardize(FillNa(raw)),
                                    ExtractSymptoms(Standardize(FillNa(raw))))
    /\ pc' = "preprocessed"
    /\ UNCHANGED <<raw, analysisVars, simVars, outputVars, symptoms, treatment_answers,
                   selected_symptom, answers, grouped_answers, excel_readable,
                   recommendations_file, recommendations_dict, recs_shown>>

\* analyze_symptoms: symptoms = sorted(list(cooccurrence_matrix.index))
SimilarityArgs ==
    /\ pc = "matrix"
    /\ sim_symptoms' = Sorted(Range(all_symptoms))
    /\ pc' = "sim_start"
    /\ UNCHANGED <<raw, df, analysisVars, browseVars, outputVars,
                   symptom_answers, similarity>>

\* calculate_symptom_similarity: the loop that fills symptom_answers
CollectAnswers ==
    /\ pc = "sim_start"
    /\ symptom_answers' = SymptomAnswers(df, sim_symptoms)
    /\ pc' = "sim_docs"
    /\ UNCHANGED <<raw, df, analysisVars, browseVars, outputVars,
                   sim_symptoms, similarity>>

\* calculate_symptom_similarity: from the vectorizer to the return
Vectorize ==
    /\ pc = "sim_docs"
    /\ similarity' = SimilarityOutcome(sim_symptoms, symptom_answers)
    /\ pc' = "sim_done"
    /\ UNCHANGED <<raw, df, analysisVars, browseVars, outputVars,
                   sim_symptoms, symptom_answers>>

NextExtract ==
    \/ LoadData
    \/ AppExtract
    \/ SelectSymptom
    \/ PreprocessMain
    \/ ReadExcel
    \/ ExtractCombinations
    \/ CooccurrenceInit
    \/ NextCombination
    \/ CountPair
    \/ CooccurrenceReturn
    \/ SimilarityArgs
    \/ CollectAnswers
    \/ Vectorize

SpecExtract == InitExtract /\ [][NextExtract]_vars

----------------------------------------------------------------------------
(* group_answers on a list of answers *)

MaxAnswers == 3

\* the answers the lists are made of
GroupTexts ==
    { X1, C, <<"a", TAB, "b">>, <<"a", SP, "c", SP, "b">>, <<SP, "c">>,
      <<"Uen", SP, "a">>, <<"c", SP, "a">> }

InitGroup ==
    /\ raw = <<>>
    /\ df = <<>>
    /\ pc = "group_start"
    /\ FilesThere
    /\ answers \in SeqsUpTo(GroupTexts, MaxAnswers)
    /\ sim_symptoms = <<>>
    /\ BlankAnalysis
    /\ BlankBrowse
    /\ BlankSimilarity

\* group_answers(answers)
GroupAnswersCall ==
    /\ pc = "group_start"
    /\ grouped_answers' = GroupAnswers(answers)
    /\ pc' = "grouped"
    /\ UNCHANGED <<raw, df, analysisVars, simVars, outputVars, symptoms, treatment_answers,
                   selected_symptom, answers, symptoms_with_answers, excel_readable,
                   recommendations_file, recommendations_dict, recs_shown>>

NextGroup == GroupAnswersCall

SpecGroup == InitGroup /\ [][NextGroup]_vars

----------------------------------------------------------------------------
(* calculate_symptom_similarity on a frame and a symptom list *)

\* the summary cells of the frames
SimCells ==
    { Cell("object", <<Item(A, <<X1>>), Item(B, <<(<<DASH>>)>>)>>),
      Cell("object", <<Item(B, <<BLANK>>), Item(C, <<(<<DASH>>), <<SP, DASH>>>>)>>),
      Cell("object", <<Item(C, <<C>>), BadItem, Item(A, <<X1>>)>>),
      Cell("object", <<Item(<<SP, "a">>, <<C>>), Item(B, <<>>)>>),
      Cell("nan", <<>>) }

\* the symptom lists
SimLists == { <<>>, <<A>>, <<A, B>>, <<B, C>>, <<C, B, A>>, <<A, A>> }

InitSim ==
    /\ raw \in SeqsUpTo(SimCells, MaxRecords)
    /\ df = raw
    /\ pc = "sim_start"
    /\ FilesThere
    /\ sim_symptoms \in SimLists
    /\ answers = <<>>
    /\ BlankAnalysis
    /\ BlankBrowse
    /\ BlankSimilarity

NextSim ==
    \/ CollectAnswers
    \/ Vectorize

SpecSim == InitSim /\ [][NextSim]_vars

----------------------------------------------------------------------------
(* The app: main loads the two files and shows the browsing screen *)

MaxAppRecords == 2
MaxRows == 2

\* the summary cells of the app's spreadsheets
AppCells ==
    { Cell("object", <<Item(A, <<X1>>), Item(B, <<C>>)>>),
      Cell("object", <<Item(C, <<X1, C>>), Item(TREATMENT, <<A>>)>>),
      Cell("object", <<Item(A, <<X1, NonString>>), Item(TREATMENT, <<C, NonString, B>>),
                       Item(C, <<C>>), Item(B, <<BLANK, NonString, C>>)>>),
      Cell("object", <<Item(B, <<X1>>), BadItem, Item(A, <<C>>)>>),
      Cell("nan", <<>>) }

\* the rows of the recommendations tables
TableRows ==
    { Row(A, <<X1, NonString, BLANK>>),
      Row(A, <<C, <<>>, X2>>),
      Row(<<SP, "a">>, <<C, C, C>>),
      Row(B, <<NonString, BLANK, NonString>>) }

\* the recommendations files: unreadable, or rows and the place of a failure
RecommendationFiles ==
    {UnreadableFile} \cup
    {File(rows, n) : <<rows, n>> \in
        {q \in SeqsUpTo(TableRows, MaxRows) \X (0..MaxRows) : q[2] <= Len(q[1])}}

InitApp ==
    /\ raw \in SeqsUpTo(AppCells, MaxAppRecords)
    /\ df = <<>>
    /\ pc = "start"
    /\ excel_readable \in BOOLEAN
    /\ recommendations_file \in RecommendationFiles
    /\ BlankAnalysis
    /\ BlankBrowse
    /\ answers = <<>>
    /\ sim_symptoms = <<>>
    /\ BlankSimilarity

\* load_data: pd.read_excel raises; main's except shows the error
LoadDataFails ==
    /\ pc = "start"
    /\ ~excel_readable
    /\ pc' = "load_error"
    /\ UNCHANGED <<raw, df, analysisVars, browseVars, simVars, outputVars>>

NextApp ==
    \/ LoadData
    \/ LoadDataFails
    \/ AppExtract
    \/ SelectSymptom

SpecApp == InitApp /\ [][NextApp]_vars

----------------------------------------------------------------------------
(* analyze_symptoms run again and again on one output directory *)

MaxRuns == 3
MaxRunRecords == 2

\* the summary cells of the spreadsheets that are analysed
RunCells ==
    { Cell("object", <<Item(A, <<X1>>), Item(B, <<C>>)>>),
      Cell("object", <<Item(A, <<X1>>), Item(C, <<>>)>>),
      Cell("object", <<Item(B, <<(<<DASH>>)>>), Item(C, <<(<<DASH>>)>>)>>),
      Cell("nan", <<>>) }

InitRuns ==
    /\ raw = <<>>
    /\ Blank

\* one run of analyze_symptoms(excel_path, output_dir) on the spreadsheet
\* that is at excel_path then: it returns, or calculate_symptom_similarity
\* ends it with an exception after the first three files have been written
AnalyzeSymptoms(dataset) ==
    \E a \in {Analysis(dataset)} :
        /\ raw' = dataset
        /\ df' = a.df
        /\ symptom_combinations' = a.combos
        /\ all_symptoms' = a.labels
        /\ cooccurrence_matrix' = a.matrix
        /\ top_n' = TopNDefault
        /\ related_symptoms' = a.related
        /\ min_weight' = MinWeightDefault
        /\ G' = a.graph
        /\ sim_symptoms' = a.symptoms
        /\ symptom_answers' = a.docs
        /\ similarity' = a.similarity
        /\ runs' = runs + 1
        /\ output_dir' = FilesAfter(output_dir, runs + 1, a)
        /\ pc' = IF a.similarity.raised THEN "run_failed" ELSE "run_done"
        /\ UNCHANGED <<k, order, i, j, browseVars>>

\* the next run, on some spreadsheet
RunAnalysis ==
    /\ pc \in {"start", "run_done", "run_failed"}
    /\ runs < MaxRuns
    /\ \E dataset \in SeqsUpTo(RunCells, MaxRunRecords) : AnalyzeSymptoms(dataset)

NextRuns == RunAnalysis

SpecRuns == InitRuns /\ [][NextRuns]_vars

----------------------------------------------------------------------------
(* Claims about the co-occurrence matrix, the ranker and the graph *)

Labels == Range(all_symptoms)
MatrixBuilt == pc \in {"matrix", "related", "graph"}
Pos(seq, x) == CHOOSE p \in DOMAIN seq : seq[p] = x

\* a record parses: its text loads as an object whose entries are objects
RecordParses(cell) ==
    /\ cell.kind = "object"
    /\ \A s \in CellStrings(cell) : ~Contains(s, <<QUOTE>>)
    /\ \A n \in DOMAIN cell.items : cell.items[n].obj

\* the distinct non-empty symptom texts of a record, the treatment-history
\* label aside
RecordTexts(cell) ==
    {Strip(cell.items[n].text) : n \in DOMAIN cell.items} \ {<<>>, TREATMENT}

\* the number of records that parse, hold at least 2 distinct symptom texts,
\* and hold both a and b
RecordsWithBoth(a, b) ==
    Cardinality({n \in DOMAIN raw :
                    /\ RecordParses(raw[n])
                    /\ Cardinality(RecordTexts(raw[n])) >= 2
                    /\ {a, b} \subseteq RecordTexts(raw[n])})

\* C1: once the matrix is built, each entry for two distinct symptoms a and b
\* is the number of records that parse, hold at least 2 distinct non-empty
\* symptom texts other than the treatment-history label, and hold both a and
\* b (two symptoms found together in such a record are labels of the matrix);
\* every diagonal entry is 0.
C1_MatrixCountsRecords ==
    MatrixBuilt =>
        /\ \A a, b \in Labels :
              cooccurrence_matrix[<<a, b>>] = IF a = b THEN 0 ELSE RecordsWithBoth(a, b)
        /\ \A a, b \in {A, B, C} :
              a # b /\ RecordsWithBoth(a, b) > 0 => {a, b} \subseteq Labels

\* C1's case: the records [{a,b},{a,b},{a,c}] give 2, 1 and 0
C1_Witness ==
    /\ pc = "matrix"
    /\ raw = << Cell("object", <<Item(A, <<>>), Item(B, <<>>)>>),
                Cell("object", <<Item(A, <<>>), Item(B, <<>>)>>),
                Cell("object", <<Item(C, <<>>), Item(A, <<>>)>>) >>
    /\ cooccurrence_matrix[<<A, B>>] = 2
    /\ cooccurrence_matrix[<<A, C>>] = 1
    /\ cooccurrence_matrix[<<B, C>>] = 0
    /\ cooccurrence_matrix[<<A, A>>] = 0

Symmetric ==
    \A a, b \in Labels : cooccurrence_matrix[<<a, b>>] = cooccurrence_matrix[<<b, a>>]

\* C2 as stated: the matrix is symmetric after every increment step and at
\* the end.
C2_SymmetricAfterEveryIncrement ==
    pc \in {"fill", "matrix", "related", "graph"} => Symmetric

\* C2 as amended: the matrix is symmetric whenever both loops over a
\* combination have finished (before the first combination, between two
\* combinations, and at the end); between the increments of one combination
\* it need not be.
C2_SymmetricBetweenCombinations ==
    pc \in {"fill", "matrix", "related", "graph"} /\ order = <<>> => Symmetric

\* C2's case: a combination has just been counted and others are left
C2_Witness ==
    /\ pc = "fill"
    /\ order = <<>>
    /\ k = 2
    /\ Len(symptom_combinations) = 3
    /\ \E a, b \in Labels : cooccurrence_matrix[<<a, b>>] = 1

\* C3: for every symptom s of the matrix and every top_n >= 0, the list
\* returned for s does not hold s, holds only partners whose count in the
\* matrix is above 0 (with that count), has at most top_n entries and is in
\* non-increasing order of count.
C3_RelatedListShape ==
    pc = "related" =>
        /\ DOMAIN related_symptoms = Labels
        /\ \A s \in Labels :
              LET r == related_symptoms[s]
              IN  /\ Len(r) <= top_n
                  /\ \A p \in DOMAIN r :
                        /\ r[p][1] # s
                        /\ r[p][1] \in Labels
                        /\ r[p][2] > 0
                        /\ r[p][2] = cooccurrence_matrix[<<r[p][1], s>>]
                  /\ \A p, q \in DOMAIN r : p < q => r[p][2] >= r[q][2]

\* C3's case: a symptom with more partners than top_n, whose partner of the
\* highest count is not the first in matrix order
C3_Witness ==
    /\ pc = "related"
    /\ top_n = 1
    /\ Labels = {A, B, C}
    /\ cooccurrence_matrix[<<B, A>>] = 1
    /\ cooccurrence_matrix[<<C, A>>] = 2
    /\ related_symptoms[A] = <<(<<C, 2>>)>>

\* the partners of s with a count above 0
Partners(s) == {x \in Labels \ {s} : cooccurrence_matrix[<<x, s>>] > 0}

\* C4: in the list returned for a symptom, partners of equal count are in the
\* order of the matrix's labels, and the cut to top_n comes after the
\* ordering: a partner that is left out has a lower count than every partner
\* kept, or the same count and a later place in the matrix.
C4_TiesInMatrixOrder ==
    pc = "related" =>
        \A s \in Labels :
            LET r == related_symptoms[s]
                kept == {r[p][1] : p \in DOMAIN r}
            IN  /\ \A p, q \in DOMAIN r :
                      p < q /\ r[p][2] = r[q][2] =>
                          Pos(all_symptoms, r[p][1]) < Pos(all_symptoms, r[q][1])
                /\ Len(r) = (IF Cardinality(Partners(s)) < top_n
                             THEN Cardinality(Partners(s)) ELSE top_n)
                /\ \A x \in Partners(s) \ kept : \A y \in kept :
                      \/ cooccurrence_matrix[<<y, s>>] > cooccurrence_matrix[<<x, s>>]
                      \/ /\ cooccurrence_matrix[<<y, s>>] = cooccurrence_matrix[<<x, s>>]
                         /\ Pos(all_symptoms, y) < Pos(all_symptoms, x)

\* C4's case: two partners of equal count and room for one
C4_Witness ==
    /\ pc = "related"
    /\ top_n = 1
    /\ Labels = {A, B, C}
    /\ cooccurrence_matrix[<<B, A>>] = 2
    /\ cooccurrence_matrix[<<C, A>>] = 2
    /\ related_symptoms[A] = <<(<<B, 2>>)>>

\* C5: the graph's nodes are exactly the matrix's labels, its edges exactly
\* the unordered pairs {a,b}, a # b, whose count is at least min_weight, and
\* each edge carries that count as its weight.
C5_GraphOfMatrix ==
    pc = "graph" =>
        /\ G.nodes = Labels
        /\ DOMAIN G.weight =
              {{a, b} : <<a, b>> \in
                  {q \in Labels \X Labels :
                      q[1] # q[2] /\ cooccurrence_matrix[q] >= min_weight}}
        /\ \A a, b \in Labels :
              {a, b} \in DOMAIN G.weight => G.weight[{a, b}] = cooccurrence_matrix[<<a, b>>]

\* C5's case: min_weight 2, a pair of weight 0 without an edge, a pair of
\* weight 2 with one, and an isolated node
C5_Witness ==
    /\ pc = "graph"
    /\ min_weight = 2
    /\ Labels = {A, B, C}
    /\ cooccurrence_matrix[<<B, C>>] = 0
    /\ {B, C} \notin DOMAIN G.weight
    /\ cooccurrence_matrix[<<A, B>>] = 2
    /\ {A, B} \in DOMAIN G.weight
    /\ G.weight[{A, B}] = 2
    /\ C \in G.nodes
    /\ \A e \in DOMAIN G.weight : C \notin e

----------------------------------------------------------------------------
(* Claims about the extractors *)

Ascending(list) == \A p, q \in DOMAIN list : p < q => StrLess(list[p], list[q])

\* C6: each symptom extract_all_symptoms returns is a non-empty text, is not
\* the treatment-history label, and is the trimmed text of an entry of some
\* record that has an answer which is non-empty after trimming; the list has
\* no duplicates and is in ascending order.
C6_SymptomsHaveAnswers ==
    pc \in {"browse", "selected"} =>
        /\ Ascending(symptoms)
        /\ \A s \in Range(symptoms) :
              /\ s # <<>>
              /\ s # TREATMENT
              /\ \E n \in DOMAIN df : \E m \in DOMAIN df[n].items :
                    /\ df[n].kind = "object"
                    /\ df[n].items[m].obj
                    /\ Strip(df[n].items[m].text) = s
                    /\ \E a \in DOMAIN df[n].items[m].answers :
                          /\ IsStr(df[n].items[m].answers[a])
                          /\ Strip(df[n].items[m].answers[a]) # <<>>

\* C6's case: two symptoms are returned from records that also hold a
\* symptom with blank answers only, an entry without text and a
\* treatment-history entry
C6_Witness ==
    /\ pc = "browse"
    /\ symptoms = <<A, B>>
    /\ \E n \in DOMAIN df : \E m \in DOMAIN df[n].items :
          df[n].items[m] = Item(B, <<BLANK, <<>>>>)
    /\ \E n \in DOMAIN df : \E m \in DOMAIN df[n].items :
          df[n].items[m].text = TREATMENT
    /\ \E n \in DOMAIN df : \E m \in DOMAIN df[n].items :
          df[n].items[m] = Item(<<>>, <<X1>>)

\* a summary that is empty or does not read as an object
Unparseable(cell) ==
    \/ cell.kind \in {"nan", "empty", "garbage", "array"}
    \/ \E str \in CellStrings(cell) : Contains(str, <<QUOTE>>)

\* the spreadsheet without row n
Without(n) == SubSeq(raw, 1, n - 1) \o SubSeq(raw, n + 1, Len(raw))

\* C7: a record whose summary is empty or does not read as an object adds
\* nothing: the symptom list, the treatment answers, the answers of a
\* symptom, the co-occurrence combinations and the similarity input are
\* those of the same spreadsheet without that record (every extraction
\* completes: the exceptions end inside the extractors).
C7_UnparseableRecordAddsNothing ==
    \A n \in DOMAIN raw :
        Unparseable(raw[n]) =>
            /\ pc \in {"browse", "selected"} =>
                  /\ symptoms = ExtractAllSymptoms(LoadedFrame(Without(n)))
                  /\ treatment_answers = GetTreatmentAnswers(LoadedFrame(Without(n)))
            /\ pc = "selected" =>
                  Range(answers) =
                      GetAnswersBySymptom(selected_symptom, LoadedFrame(Without(n)))
            /\ pc \in {"combinations", "fill", "matrix", "sim_start", "sim_docs", "sim_done"} =>
                  symptom_combinations = ExtractSymptomCombinations(FillNa(Without(n)))
            /\ pc \in {"sim_docs", "sim_done"} =>
                  /\ sim_symptoms = Sorted(Range(AllSymptoms(
                        ExtractSymptomCombinations(FillNa(Without(n))))))
                  /\ symptom_answers = SymptomAnswers(FillNa(Without(n)), sim_symptoms)

\* C7's case: the text {not json..., between two records that parse, and
\* the browsing extractions have run
C7_Witness ==
    /\ Len(raw) = 3
    /\ raw[2] = Cell("garbage", <<Item(C, <<X1>>), Item(TREATMENT, <<A>>)>>)
    /\ pc = "selected"
    /\ symptoms # <<>>
    /\ treatment_answers # <<>>
    /\ answers # <<>>

\* the same for the combinations and the similarity input
C7_WitnessAnalysis ==
    /\ Len(raw) = 3
    /\ raw[2] = Cell("garbage", <<Item(C, <<X1>>), Item(TREATMENT, <<A>>)>>)
    /\ pc = "sim_docs"
    /\ Len(symptom_combinations) = 2
    /\ \E s \in DOMAIN symptom_answers : symptom_answers[s] # <<>>

HasSpacedVariant(str) == Contains(str, ATK_TYPO)

\* what the app and preprocess.py extract holds no spaced variant
NormalisedOnAppAndPreprocess ==
    \A str \in Range(symptoms) \cup Range(treatment_answers) \cup Range(answers)
               \cup Range(symptoms_with_answers) :
        ~HasSpacedVariant(str)

\* C8: on every path that extracts entries (load_data for browsing,
\* preprocess.py's main, analyze_symptoms) the spaced variant is replaced
\* before any entry is extracted: no extracted symptom text or answer holds
\* it.
C8_NoSpacedVariantExtracted ==
    /\ NormalisedOnAppAndPreprocess
    /\ \A str \in UNION Range(symptom_combinations) \cup Range(all_symptoms)
                  \cup Range(sim_symptoms) :
          ~HasSpacedVariant(str)
    /\ pc \in {"sim_docs", "sim_done"} =>
          \A s \in Range(sim_symptoms) :
              \A str \in Range(AnswersListFrom(df, s, 1)) : ~HasSpacedVariant(str)

----------------------------------------------------------------------------
(* Claims about group_answers and calculate_symptom_similarity *)

\* the group label of an answer when IsSeparator tells where it splits
LabelBy(IsSeparator(_), ans) ==
    LET seps == {p \in DOMAIN ans : IsSeparator(ans[p])}
    IN  IF seps = {} THEN OTHER_GROUP
        ELSE SubSeq(ans, 1, (CHOOSE p \in seps : \A q \in seps : p <= q) - 1)

\* every answer is in exactly one group, the one of its label; the answers
\* of a group are in input order; the labels are in ascending order
GroupedBy(IsSeparator(_)) ==
    /\ \A p, q \in DOMAIN grouped_answers :
          p < q => StrLess(grouped_answers[p][1], grouped_answers[q][1])
    /\ \A n \in DOMAIN answers :
          \E p \in DOMAIN grouped_answers :
              grouped_answers[p][1] = LabelBy(IsSeparator, answers[n])
    /\ \A p \in DOMAIN grouped_answers :
          /\ grouped_answers[p][2] # <<>>
          /\ grouped_answers[p][2] =
                SelectSeq(answers,
                          LAMBDA a : LabelBy(IsSeparator, a) = grouped_answers[p][1])

IsBlankChar(c) == c = SP

\* C9 as stated: each answer is in exactly one group, labelled by the text
\* before its first whitespace character, or by "อื่นๆ" when it holds no
\* whitespace; input order inside a group; labels ascending.
C9_GroupedByFirstWhitespace == pc = "grouped" => GroupedBy(IsSpace)

\* C9 as amended: each answer is in exactly one group, labelled by the text
\* before its first space character (U+0020), or by "อื่นๆ" when it holds no
\* space character (a tab or another whitespace character does not split);
\* input order inside a group; labels ascending.
C9_GroupedByFirstSpace == pc = "grouped" => GroupedBy(IsBlankChar)

\* C9's case: the example ["ปวด ศีรษะมาก", "เครียด"], as ["a b", "c"]
C9_Witness ==
    /\ pc = "grouped"
    /\ answers = <<X1, C>>
    /\ grouped_answers = << <<(<<"a">>), <<X1>>>>, <<OTHER_GROUP, <<C>>>> >>

\* a given symptom has at least one non-empty answer
HasAnAnswer(s) == AnswersOf(FillNa(df), s) # {}

\* the frame's labels are the given symptoms with an answer, or none when
\* fewer than 2 of them have one
SimilarityShape ==
    similarity.index =
        IF Len(SelectSeq(sim_symptoms, HasAnAnswer)) < 2 THEN <<>>
        ELSE SelectSeq(sim_symptoms, HasAnAnswer)

\* what holds of calculate_symptom_similarity when it returns
SimilarityShapeUnlessRaised ==
    pc = "sim_done" /\ ~similarity.raised => SimilarityShape

\* C10: calculate_symptom_similarity returns an empty matrix when fewer than
\* 2 of the given symptoms have a non-empty answer, otherwise a matrix whose
\* rows and columns are exactly the given symptoms with a non-empty answer,
\* and it does not raise.
C10_SimilarityNeverRaises ==
    pc = "sim_done" => ~similarity.raised /\ SimilarityShape

\* the number an entry of the similarity matrix stands for is in [0,1]:
\* 0 <= dot and dot^2 <= norms
InUnitInterval(x) == x.dot >= 0 /\ x.dot * x.dot <= x.norms

\* the number an entry stands for is 1: dot = sqrt(norms) > 0
IsOne(x) == x.dot > 0 /\ x.dot * x.dot = x.norms

SimilarityReturned == pc = "sim_done" /\ similarity.index # <<>>

\* the symptom at place p of the matrix has a word token in its answers
HasToken(p) == Tokens(symptom_answers[similarity.index[p]], <<>>) # {}

\* what holds of every similarity matrix: values in [0,1], symmetry, and 1
\* on the diagonal for the symptoms whose answers hold a word token, 0 for
\* the others
SimilarityValuesWithTokens ==
    SimilarityReturned =>
        \A p, q \in DOMAIN similarity.index :
            /\ InUnitInterval(similarity.matrix[<<p, q>>])
            /\ similarity.matrix[<<p, q>>] = similarity.matrix[<<q, p>>]
            /\ IsOne(similarity.matrix[<<p, p>>]) <=> HasToken(p)

\* C11: in every non-empty similarity matrix every value is in [0,1], the
\* matrix is symmetric, and every symptom in it has similarity 1 with
\* itself, also a symptom whose answers hold no word token.
C11_SimilarityValues ==
    SimilarityReturned =>
        \A p, q \in DOMAIN similarity.index :
            /\ InUnitInterval(similarity.matrix[<<p, q>>])
            /\ similarity.matrix[<<p, q>>] = similarity.matrix[<<q, p>>]
            /\ IsOne(similarity.matrix[<<p, p>>])

----------------------------------------------------------------------------
(* Claims about the recommendations and load_data *)

\* the recommendations table the file holds: none when it cannot be loaded
TableLoads(file) == file.readable /\ file.fail_at = 0
TableKeys(file) ==
    IF TableLoads(file) THEN {file.rows[n].key : n \in DOMAIN file.rows} ELSE {}

\* the last row of a key (a later row of the same key replaces an earlier)
LastRow(file, key) ==
    file.rows[CHOOSE n \in DOMAIN file.rows :
                 /\ file.rows[n].key = key
                 /\ \A m \in DOMAIN file.rows : file.rows[m].key = key => m <= n]

\* the strings among the fields that are not blank
NonBlankStrings(recs) ==
    SelectSeq(recs, LAMBDA rec : rec # NonString /\ \E p \in DOMAIN rec : ~IsSpace(rec[p]))

\* the recommendations C12 expects for the selected symptom
ExpectedRecs ==
    IF selected_symptom \in TableKeys(recommendations_file)
    THEN NonBlankStrings(LastRow(recommendations_file, selected_symptom).recs)
    ELSE default_recommendations

\* the screen lists recommendations only for a symptom with answers
RecsListed == pc = "selected" /\ answers # <<>>

\* what holds of the recommendations when the screen lists them
RecommendationsWhenListed ==
    RecsListed => Len(recs_shown) <= 3 /\ recs_shown = ExpectedRecs

\* the table knows symptom a, with a blank and a missing field
ListedFromTable ==
    /\ RecsListed
    /\ selected_symptom = A
    /\ recommendations_file = File(<<Row(A, <<X1, NonString, BLANK>>)>>, 0)
    /\ recs_shown = <<X1>>

\* the table does not know symptom c
ListedDefaults ==
    /\ RecsListed
    /\ selected_symptom = C
    /\ TableKeys(recommendations_file) = {A, B}
    /\ recs_shown = default_recommendations

\* C12: for every recommendations table and every symptom that can be
\* selected, the recommendations listed are: when the symptom is a key of
\* the table, the non-blank strings among the three fields of its row (at
\* most 3, the blank ones dropped); when the table does not know the
\* symptom, exactly the three default strings.  (A table that cannot be
\* loaded knows no symptom.)
C12_RecommendationsShown ==
    pc = "selected" => Len(recs_shown) <= 3 /\ recs_shown = ExpectedRecs

Loaded == pc \in {"app_loaded", "browse", "selected"}

\* C13: when the spreadsheet cannot be read load_data's failure reaches
\* main, which shows it: nothing is loaded or extracted.  When the
\* recommendations table cannot be read or converted, also when the failure
\* comes after some of its rows, load_data still returns the frame, with an
\* empty mapping: nothing of the rows converted before the failure is left.
C13_LoadFailures ==
    /\ ~excel_readable /\ pc # "start" =>
          /\ pc = "load_error"
          /\ df = <<>>
          /\ symptoms = <<>>
          /\ recommendations_dict = <<>>
    /\ excel_readable => pc # "load_error"
    /\ Loaded =>
          /\ df = LoadedFrame(raw)
          /\ ~TableLoads(recommendations_file) => recommendations_dict = <<>>
          /\ TableLoads(recommendations_file) =>
                DOMAIN recommendations_dict = TableKeys(recommendations_file)

\* C13's case: the conversion fails at the second row of the table, after
\* the row of symptom a has been converted
C13_Witness ==
    /\ pc = "browse"
    /\ recommendations_file.readable
    /\ recommendations_file.fail_at = 2
    /\ recommendations_file.rows[1] = Row(A, <<X1, NonString, BLANK>>)
    /\ recommendations_dict = <<>>
    /\ symptoms = <<A, B>>

\* the spreadsheet cannot be read and main has shown the error
LoadErrorShown ==
    /\ pc = "load_error"
    /\ ~excel_readable
    /\ Len(raw) = 2

----------------------------------------------------------------------------
(* Claims about the files of the output directory *)

\* the matrix filled step by step is the one computed as a whole
MatrixAsAWhole ==
    MatrixBuilt => cooccurrence_matrix = CalculateSymptomCooccurrence(symptom_combinations)

\* what holds of the files after a run that completes: the three tables
\* written first are this run's, and so is the similarity matrix when this
\* run's is not empty
FilesOfLastRunUnlessEmpty ==
    pc = "run_done" =>
        /\ output_dir["cooccurrence"] = Artifact(runs, <<all_symptoms, cooccurrence_matrix>>)
        /\ output_dir["relations"] = Artifact(runs, related_symptoms)
        /\ output_dir["network"] = Artifact(runs, G)
        /\ similarity.index # <<>> => output_dir["similarity"] = Artifact(runs, similarity)

\* C14: after any sequence of runs of analyze_symptoms that complete on one
\* output directory, every file there (co-occurrence matrix, relations
\* table, similarity matrix, network image) holds the result of the last
\* run; none still holds what an earlier run wrote.
C14_FilesOfLastRun ==
    pc = "run_done" =>
        \A f \in ArtifactNames : output_dir[f].written => output_dir[f].by = runs

----------------------------------------------------------------------------
(* Claims that compare the extractors *)

\* processing an entry of the record raises in extract_all_symptoms
RaisesInSymptoms(cell) ==
    Raises(cell) \/ \E n \in DOMAIN Visited(cell) : SymptomTestRaises(Visited(cell)[n])

\* ... in the extractors that collect the answers of the entries of a text
RaisesInAnswers(cell, text) ==
    \/ Raises(cell)
    \/ \E n \in DOMAIN Visited(cell) :
          Strip(Visited(cell)[n].text) = text /\ AnswersRaise(Visited(cell)[n])

AfterCombinations ==
    pc \in {"combinations", "fill", "matrix", "sim_start", "sim_docs", "sim_done"}

\* extract_symptom_combinations is all-or-nothing: a record that raises
\* adds no combination
CombinationsAllOrNothing ==
    AfterCombinations =>
        \A n \in DOMAIN df :
            Raises(df[n]) =>
                symptom_combinations = ExtractSymptomCombinations(FillNa(Without(n)))

\* C15: in every extractor a record is all-or-nothing: when processing one
\* of its entries raises (an entry that is no object, an answer that is no
\* string), no entry of the record adds to the result, the entries before
\* the failing one included: the result is that of the spreadsheet without
\* the record.
C15_RecordAllOrNothing ==
    \A n \in DOMAIN df :
        /\ pc \in {"browse", "selected"} =>
              /\ RaisesInSymptoms(df[n]) =>
                    symptoms = ExtractAllSymptoms(LoadedFrame(Without(n)))
              /\ RaisesInAnswers(df[n], TREATMENT) =>
                    treatment_answers = GetTreatmentAnswers(LoadedFrame(Without(n)))
        /\ pc = "selected" /\ RaisesInAnswers(df[n], selected_symptom) =>
              Range(answers) = GetAnswersBySymptom(selected_symptom, LoadedFrame(Without(n)))
        /\ AfterCombinations /\ Raises(df[n]) =>
              symptom_combinations = ExtractSymptomCombinations(FillNa(Without(n)))
        /\ pc \in {"sim_docs", "sim_done"} =>
              \A s \in Range(sim_symptoms) :
                  RaisesInAnswers(df[n], s) =>
                      symptom_answers[s] = SymptomAnswers(FillNa(Without(n)), <<s>>)[s]

LabelsSet == pc \in {"fill", "matrix", "sim_start", "sim_docs", "sim_done"}

\* every label of the matrix is the trimmed text of an entry of a record
\* that parses
LabelsAreEntryTexts ==
    LabelsSet =>
        \A s \in Labels :
            \E n \in DOMAIN df : ~Raises(df[n]) /\ s \in SymptomsInRecord(df[n])

\* C16: for every spreadsheet, every symptom that labels the co-occurrence
\* matrix analyze_symptoms builds (so every graph node, relations row and
\* similarity candidate) is one of the symptoms extract_all_symptoms
\* returns for that spreadsheet.
C16_LabelsAreSymptoms ==
    LabelsSet => Labels \subseteq Range(ExtractAllSymptoms(df))

\* every answer of the spreadsheet is a string
AnswersAreStrings ==
    \A n \in DOMAIN raw : \A m \in DOMAIN raw[n].items :
        \A a \in DOMAIN raw[n].items[m].answers : IsStr(raw[n].items[m].answers[a])

\* every symptom offered has an answer, and the screen shows the answers
\* of the one selected
OfferedSymptomsHaveAnswers ==
    /\ pc \in {"browse", "selected"} =>
          \A s \in Range(symptoms) : GetAnswersBySymptom(s, df) # {}
    /\ pc = "selected" => answers # <<>>

\* what holds of the spreadsheets whose answers are all strings
OfferedSymptomsHaveAnswersOfStrings == AnswersAreStrings => OfferedSymptomsHaveAnswers

\* C17: for every spreadsheet, every symptom extract_all_symptoms returns
\* has a non-empty result of get_answers_by_symptom: the browsing screen
\* never reports 'no additional data' for a symptom of its list.
C17_OfferedSymptomsHaveAnswers ==
    /\ pc \in {"browse", "selected"} =>
          \A s \in Range(symptoms) : GetAnswersBySymptom(s, df) # {}
    /\ pc = "selected" => answers # <<>> /\ grouped_answers # <<>>

\* node s of the graph has no edge
Isolated(s) == \A e \in DOMAIN G.weight : s \notin e

\* C18: every symptom that labels the co-occurrence matrix has a count
\* above 0 with another symptom in its row; so with top_n >= 1
\* find_most_related_symptoms gives no symptom of the matrix an empty list,
\* and a node of the graph is isolated only when all its counts are below
\* min_weight.
C18_EveryLabelHasAPartner ==
    /\ MatrixBuilt =>
          \A s \in Labels : \E x \in Labels \ {s} : cooccurrence_matrix[<<s, x>>] > 0
    /\ pc = "related" /\ top_n >= 1 =>
          \A s \in Labels : related_symptoms[s] # <<>>
    /\ pc = "graph" =>
          \A s \in G.nodes :
              Isolated(s) =>
                  \A x \in Labels \ {s} : cooccurrence_matrix[<<s, x>>] < min_weight

\* C18's case: a record with a single symptom next to two combinations;
\* two of the three labels never occur together
C18_Witness ==
    /\ pc = "related"
    /\ top_n = 1
    /\ Labels = {A, B, C}
    /\ \E n \in DOMAIN raw :
          raw[n] = Cell("object", <<Item(A, <<>>), Item(TREATMENT, <<>>), Item(A, <<>>)>>)
    /\ cooccurrence_matrix[<<B, C>>] = 0
    /\ \A s \in Labels : Len(related_symptoms[s]) = 1

\* the same for the graph: a node is isolated, its counts are below
\* min_weight
IsolatedBelowMinWeight ==
    /\ pc = "graph"
    /\ min_weight = 2
    /\ Labels = {A, B, C}
    /\ Isolated(C)
    /\ cooccurrence_matrix[<<C, A>>] = 1

====
